---------------------------- MODULE Spec2Model ----------------------------
(***************************************************************************)
(* A model of the address book of goit-pycore-hw-07: the value types       *)
(* (models.py: Phone, Birthday), the Record and AddressBook operations,    *)
(* the command handlers (handler.py) and the command loop (main.py).       *)
(*                                                                         *)
(* A Python str is a sequence of one-character strings, so that the        *)
(* conversions of the code (the regular expressions of Phone, strptime,    *)
(* strftime, str.split, str.lower) are computed and not assumed.           *)
(***************************************************************************)
EXTENDS Integers, Sequences, FiniteSets, TLC

VARIABLES
    book,    \* AddressBook.data: the records, in insertion order of their names
    today,   \* the date of the process clock (datetime.now(), date.today())
    last,    \* the last call: its operation, arguments and outcome
    rec,     \* a Record driven through its own methods
    raw,     \* the string handed to Phone(...)
    built,   \* what Phone(raw) produced
    pc       \* where the command loop of main() is

vars == <<book, today, last, rec, raw, built, pc>>

---------------------------------------------------------------------------
(* Bounds of the model.                                                    *)

\* the longest prefix of a raw phone string drawn over PreAlphabet
MaxPre == 3
\* the longest run of one repeated digit in the middle of a raw phone string
MaxFill == 10
\* the longest suffix of a raw phone string drawn over SufAlphabet
MaxSuf == 2

---------------------------------------------------------------------------
(* Strings.                                                                *)

Digits == <<"0", "1", "2", "3", "4", "5", "6", "7", "8", "9">>

DigitSet == {Digits[i] : i \in 1..10}

IsDigit(c) == c \in DigitSet

DigitVal(c) == (CHOOSE i \in 1..10 : Digits[i] = c) - 1

DigitChar(n) == Digits[n + 1]

StartsWith(s, p) == Len(s) >= Len(p) /\ SubSeq(s, 1, Len(p)) = p

Rep(c, n) == [i \in 1..n |-> c]

\* every string over alphabet of length at most n
Strs(alphabet, n) == UNION {[1..k -> alphabet] : k \in 0..n}

---------------------------------------------------------------------------
(* Exceptions.  An operation ends with NoError or with the exception it    *)
(* raised.                                                                 *)

NoError == [type |-> "", message |-> ""]

InvalidFormat ==
    [type |-> "ValueError",
     message |-> "Invalid phone number. Use (+38) XXX-XXX-XX-XX format."]

DuplicatePhone ==
    [type |-> "ContactError", message |-> "Phone number already exists."]

PhoneNotFound ==
    [type |-> "ContactError", message |-> "No such phone number."]

DuplicateNewPhone ==
    [type |-> "ContactError", message |-> "New phone number already exists."]

DuplicateContact ==
    [type |-> "ContactError", message |-> "Contact already exists."]

ContactNotFound ==
    [type |-> "ContactError", message |-> "No such contact."]

InvalidDateFormat ==
    [type |-> "ValueError", message |-> "Invalid date format. Use DD.MM.YYYY"]

FutureDate ==
    [type |-> "ValueError", message |-> "Birthday can't be in the future."]

TooOld ==
    [type |-> "ValueError", message |-> "Birthday can't be earlier than 1900."]

\* date(year, month, day) with a day the month does not have
DayOutOfRange ==
    [type |-> "ValueError", message |-> "day is out of range for month"]

\* name, phone, *_ = args  with too few values in args
ArityMismatch ==
    [type |-> "ValueError", message |-> "not enough values to unpack"]

---------------------------------------------------------------------------
(* models.py: Phone.                                                       *)

\* Phone.country_code
country_code == <<"3","8">>

\* "".join(re.findall(r"[+\d]", value)): the '+' and the digits of value, in order
PhoneChars(value) == SelectSeq(value, LAMBDA c : c = "+" \/ IsDigit(c))

\* re.sub(r"^(38)?", "+38", phone): the match is at the start of the string
\* only, the country code when the string starts with it and the empty string
\* otherwise
SubCountryCode(p) ==
    IF StartsWith(p, country_code)
    THEN <<"+">> \o country_code \o SubSeq(p, Len(country_code) + 1, Len(p))
    ELSE <<"+">> \o country_code \o p

\* the string Phone.__init__ checks the length of
NormalizePhone(value) ==
    LET p == PhoneChars(value)
    IN  IF StartsWith(p, <<"+">>) THEN p ELSE SubCountryCode(p)

\* the length Phone.__init__ requires
PhoneLen == 13

\* Phone(value): the field's value, or the ValueError
Phone(value) ==
    LET p == NormalizePhone(value)
    IN  IF Len(p) # PhoneLen
        THEN [error |-> InvalidFormat, value |-> <<>>]
        ELSE [error |-> NoError, value |-> p]

---------------------------------------------------------------------------
(* Calendar dates: datetime.date and datetime.datetime at midnight, as the *)
(* record [year, month, day].                                              *)

IsLeap(y) == (y % 4 = 0 /\ y % 100 # 0) \/ y % 400 = 0

DaysInMonth(y, m) ==
    IF m = 2 THEN (IF IsLeap(y) THEN 29 ELSE 28)
    ELSE IF m \in {4, 6, 9, 11} THEN 30 ELSE 31

Date(y, m, d) == [year |-> y, month |-> m, day |-> d]

\* whether datetime.date(y, m, d) is a date and not a ValueError
DateValid(y, m, d) ==
    /\ y \in 1..9999
    /\ m \in 1..12
    /\ d >= 1
    /\ d <= DaysInMonth(y, m)

RECURSIVE DaysBeforeMonth(_, _)
DaysBeforeMonth(y, m) ==
    IF m = 1 THEN 0 ELSE DaysBeforeMonth(y, m - 1) + DaysInMonth(y, m - 1)

\* date.toordinal(): 1 for 0001-01-01
ToOrdinal(d) ==
    LET y == d.year - 1
    IN  y * 365 + (y \div 4) - (y \div 100) + (y \div 400)
          + DaysBeforeMonth(d.year, d.month) + d.day

\* date.weekday(): 0 for Monday ... 6 for Sunday
Weekday(d) == (ToOrdinal(d) + 6) % 7

NextDay(d) ==
    IF d.day < DaysInMonth(d.year, d.month) THEN Date(d.year, d.month, d.day + 1)
    ELSE IF d.month < 12 THEN Date(d.year, d.month + 1, 1)
    ELSE Date(d.year + 1, 1, 1)

\* date + timedelta(days = n), for n >= 0
RECURSIVE AddDays(_, _)
AddDays(d, n) == IF n = 0 THEN d ELSE AddDays(NextDay(d), n - 1)

\* a <= b for dates
DateLE(a, b) ==
    \/ a.year < b.year
    \/ a.year = b.year /\ a.month < b.month
    \/ a.year = b.year /\ a.month = b.month /\ a.day <= b.day

RECURSIVE ToInt(_)
ToInt(ds) ==
    IF ds = <<>> THEN 0
    ELSE 10 * ToInt(SubSeq(ds, 1, Len(ds) - 1)) + DigitVal(ds[Len(ds)])

AllDigits(s) == \A i \in 1..Len(s) : IsDigit(s[i])

\* n in decimal, zero-padded to w digits
RECURSIVE Pad(_, _)
Pad(n, w) == IF w = 0 THEN <<>> ELSE Append(Pad(n \div 10, w - 1), DigitChar(n % 10))

\* strftime("%d.%m.%Y")
Strftime(d) == Pad(d.day, 2) \o <<".">> \o Pad(d.month, 2) \o <<".">> \o Pad(d.year, 4)

\* datetime.strptime(value, "%d.%m.%Y"): a day and a month of one or two
\* digits, a year of four, each in its range, and a day the month has
Strptime(value) ==
    LET dots == {i \in 1..Len(value) : value[i] = "."}
    IN  IF Cardinality(dots) # 2
        THEN [error |-> InvalidDateFormat, value |-> Date(0, 0, 0)]
        ELSE
          LET d1 == CHOOSE i \in dots : \A j \in dots : i <= j
              d2 == CHOOSE i \in dots : \A j \in dots : j <= i
              dd == SubSeq(value, 1, d1 - 1)
              mm == SubSeq(value, d1 + 1, d2 - 1)
              yy == SubSeq(value, d2 + 1, Len(value))
          IN  IF /\ AllDigits(dd) /\ AllDigits(mm) /\ AllDigits(yy)
                 /\ Len(dd) \in 1..2 /\ Len(mm) \in 1..2 /\ Len(yy) = 4
                 /\ ToInt(dd) \in 1..31 /\ ToInt(mm) \in 1..12
                 /\ DateValid(ToInt(yy), ToInt(mm), ToInt(dd))
              THEN [error |-> NoError, value |-> Date(ToInt(yy), ToInt(mm), ToInt(dd))]
              ELSE [error |-> InvalidDateFormat, value |-> Date(0, 0, 0)]

---------------------------------------------------------------------------
(* models.py: Birthday.                                                    *)

\* the earliest year Birthday.__init__ accepts
MinBirthYear == 1900

\* Birthday(value) when the clock shows the date now: a birthday of today is
\* midnight and so not after now, one of tomorrow is
Birthday(value, now) ==
    LET b == Strptime(value)
    IN  IF b.error # NoError THEN b
        ELSE IF ~DateLE(b.value, now) THEN [error |-> FutureDate, value |-> Date(0, 0, 0)]
        ELSE IF b.value.year < MinBirthYear THEN [error |-> TooOld, value |-> Date(0, 0, 0)]
        ELSE b

---------------------------------------------------------------------------
(* models.py: Record.                                                      *)

\* Record.birthday = None
NoBirthday == Date(0, 0, 0)

\* Record(name)
Record(name) == [name |-> name, phones |-> <<>>, birthday |-> NoBirthday]

\* the position of the first entry of phones equal to v, 0 when there is none
FirstIndex(phones, v) ==
    IF \E i \in 1..Len(phones) : phones[i] = v
    THEN CHOOSE i \in 1..Len(phones) :
            phones[i] = v /\ \A j \in 1..(i - 1) : phones[j] # v
    ELSE 0

\* a plausible slip: the stored values compared with the string as typed
find_phone_raw(r, p) ==
    LET t == Phone(p)
    IN  IF t.error # NoError THEN [error |-> t.error, index |-> 0]
        ELSE [error |-> NoError, index |-> FirstIndex(r.phones, p)]

\* Record.find_phone: the first phone equal to Phone(p), as its position (0 for
\* None), or the ValueError of Phone(p)
find_phone(r, p) ==
    LET t == Phone(p)
    IN  IF t.error # NoError THEN [error |-> t.error, index |-> 0]
        ELSE [error |-> NoError, index |-> FirstIndex(r.phones, t.value)]

\* a plausible slip: the new phone put first
add_phone_front(r, p) ==
    LET f == find_phone(r, p)
    IN  IF f.error # NoError THEN [rec |-> r, error |-> f.error]
        ELSE IF f.index # 0 THEN [rec |-> r, error |-> DuplicatePhone]
        ELSE [rec |-> [r EXCEPT !.phones = <<Phone(p).value>> \o @],
              error |-> NoError]

\* Record.add_phone
add_phone(r, p) ==
    LET f == find_phone(r, p)
    IN  IF f.error # NoError THEN [rec |-> r, error |-> f.error]
        ELSE IF f.index # 0 THEN [rec |-> r, error |-> DuplicatePhone]
        ELSE [rec |-> [r EXCEPT !.phones = Append(@, Phone(p).value)],
              error |-> NoError]

RemoveAt(s, i) == SubSeq(s, 1, i - 1) \o SubSeq(s, i + 1, Len(s))

\* Record.remove_phone
remove_phone(r, p) ==
    LET f == find_phone(r, p)
    IN  IF f.error # NoError THEN [rec |-> r, error |-> f.error]
        ELSE IF f.index # 0
        THEN [rec |-> [r EXCEPT !.phones = RemoveAt(@, f.index)], error |-> NoError]
        ELSE [rec |-> r, error |-> NoError]

\* a plausible slip: the old entry removed and the new one appended
edit_phone_append(r, p, q) ==
    LET f == find_phone(r, p)
        g == find_phone(r, q)
    IN  IF f.error # NoError THEN [rec |-> r, error |-> f.error]
        ELSE IF f.index = 0 THEN [rec |-> r, error |-> PhoneNotFound]
        ELSE IF g.error # NoError THEN [rec |-> r, error |-> g.error]
        ELSE IF g.index # 0 THEN [rec |-> r, error |-> DuplicateNewPhone]
        ELSE [rec |-> [r EXCEPT !.phones =
                          Append(RemoveAt(@, f.index), Phone(q).value)],
              error |-> NoError]

\* Record.edit_phone
edit_phone(r, p, q) ==
    LET f == find_phone(r, p)
        g == find_phone(r, q)
    IN  IF f.error # NoError THEN [rec |-> r, error |-> f.error]
        ELSE IF f.index = 0 THEN [rec |-> r, error |-> PhoneNotFound]
        ELSE IF g.error # NoError THEN [rec |-> r, error |-> g.error]
        ELSE IF g.index # 0 THEN [rec |-> r, error |-> DuplicateNewPhone]
        ELSE [rec |-> [r EXCEPT !.phones[f.index] = Phone(q).value],
              error |-> NoError]

\* Record.add_birthday
Record_add_birthday(r, b, now) ==
    LET v == Birthday(b, now)
    IN  IF v.error # NoError THEN [rec |-> r, error |-> v.error]
        ELSE [rec |-> [r EXCEPT !.birthday = v.value], error |-> NoError]

\* str(record)
RECURSIVE JoinStr(_, _)
JoinStr(sep, items) ==
    IF items = <<>> THEN <<>>
    ELSE IF Len(items) = 1 THEN items[1]
    ELSE items[1] \o sep \o JoinStr(sep, Tail(items))

Record_str(r) ==
    LET chunks ==
          << <<"C","o","n","t","a","c","t"," ","n","a","m","e",":"," ">> \o r.name,
             <<"p","h","o","n","e","s",":"," ">> \o JoinStr(<<";"," ">>, r.phones) >>
          \o (IF r.birthday # NoBirthday
              THEN << <<"b","i","r","t","h","d","a","y",":"," ">> \o Strftime(r.birthday) >>
              ELSE <<>>)
    IN  JoinStr(<<","," ">>, chunks)

---------------------------------------------------------------------------
(* models.py: AddressBook.  data is a dict keyed by Name, which compares   *)
(* and hashes by its string: the records in insertion order, no two with   *)
(* the same name.                                                          *)

\* the position of the record a name is the key of, 0 when  name not in data
IndexOfName(b, name) ==
    IF \E i \in 1..Len(b) : b[i].name = name
    THEN CHOOSE i \in 1..Len(b) : b[i].name = name
    ELSE 0

\* a plausible slip: the check left out, so that the assignment replaces the
\* record the name already maps to
add_record_overwrite(b, record) ==
    LET i == IndexOfName(b, record.name)
    IN  IF i # 0 THEN [book |-> [b EXCEPT ![i] = record], error |-> NoError]
        ELSE [book |-> Append(b, record), error |-> NoError]

\* AddressBook.add_record
add_record(b, record) ==
    IF IndexOfName(b, record.name) # 0
    THEN [book |-> b, error |-> DuplicateContact]
    ELSE [book |-> Append(b, record), error |-> NoError]

\* AddressBook.find: the record as its position, 0 for None
find(b, name, raise_error) ==
    LET i == IndexOfName(b, name)
    IN  IF i = 0 /\ raise_error THEN [error |-> ContactNotFound, index |-> 0]
        ELSE [error |-> NoError, index |-> i]

\* AddressBook.delete
delete(b, name) ==
    LET i == IndexOfName(b, name)
    IN  IF i # 0 THEN RemoveAt(b, i) ELSE b

\* the last day of the window, counted from today: "7 days including today is
\* 6 days from today"
WindowLastDay == 6

\* datetime.date(today.year, birthday.month, birthday.day)
birthday_this_year(now, birthday) ==
    IF DateValid(now.year, birthday.month, birthday.day)
    THEN [error |-> NoError, value |-> Date(now.year, birthday.month, birthday.day)]
    ELSE [error |-> DayOutOfRange, value |-> Date(0, 0, 0)]

\* a plausible slip: 6 - weekday for 7 - weekday
congratulation_date_off_by_one(bty) ==
    IF Weekday(bty) \in {5, 6} THEN AddDays(bty, 6 - Weekday(bty)) ELSE bty

\* the congratulation date of a birthday that falls on bty this year
congratulation_date(bty) ==
    IF Weekday(bty) \in {5, 6} THEN AddDays(bty, 7 - Weekday(bty)) ELSE bty

\* the loop of get_upcoming_birthdays from the i-th record on
RECURSIVE UpcomingFrom(_, _, _, _)
UpcomingFrom(b, now, i, upcoming) ==
    IF i > Len(b) THEN [error |-> NoError, entries |-> upcoming]
    ELSE IF b[i].birthday = NoBirthday THEN UpcomingFrom(b, now, i + 1, upcoming)
    ELSE
      LET t == birthday_this_year(now, b[i].birthday)
      IN  IF t.error # NoError THEN [error |-> t.error, entries |-> <<>>]
          ELSE IF DateLE(now, t.value) /\ DateLE(t.value, AddDays(now, WindowLastDay))
          THEN UpcomingFrom(b, now, i + 1,
                   Append(upcoming,
                       [name |-> b[i].name,
                        congratulation_date |->
                            Strftime(congratulation_date(t.value))]))
          ELSE UpcomingFrom(b, now, i + 1, upcoming)

\* AddressBook.get_upcoming_birthdays, today being date.today()
get_upcoming_birthdays(b, now) == UpcomingFrom(b, now, 1, <<>>)

---------------------------------------------------------------------------
(* handler.py.  A handler returns a message (ret), or text (value: a list  *)
(* of strings); error is the exception raised inside it, which the         *)
(* decorator input_error turns into a message.  What the handler did to    *)
(* the book before it raised stays done.  A decorated handler is the set   *)
(* of the outcomes the decorator allows.                                   *)

\* the decorator's messages (their placeholders are Ukrainian words in the
\* source; written in English here)
UsageAdd == "Invalid command. Usage: add [name] [phone]"
UsageChange == "Invalid command. Usage: change [name] [phone] [new phone]"
UsageDelete == "Invalid command. Usage: delete [name]"
UsageContact == "Invalid command. Usage: contact [name]"
UsageAddBirthday == "Invalid command. Usage: add-birthday [name] [birthday]"
UsageShowBirthday == "Invalid command. Usage: show-birthday [name]"
UsageBirthdays == "Invalid command. Usage: birthdays"

Returned(b, ret, value) == [book |-> b, error |-> NoError, ret |-> ret, value |-> value]

Raised(b, error) == [book |-> b, error |-> error, ret |-> "", value |-> <<>>]

\* @input_error(strerror): an exception of the handler becomes the message
\* returned.  decorators.py is described as returning strerror for every
\* error, while test_add_contact_phone_existing_error expects the message of a
\* ContactError: both are outcomes here
input_error(strerror, r) ==
    UNION {IF x.error = NoError THEN {x}
           ELSE IF x.error.type = "ContactError"
           THEN {[x EXCEPT !.ret = strerror], [x EXCEPT !.ret = x.error.message]}
           ELSE {[x EXCEPT !.ret = strerror]} : x \in {r}}

\* add_contact, undecorated
add_contact_body(args, b) ==
    IF Len(args) < 2 THEN Raised(b, ArityMismatch)
    ELSE
      LET name == args[1]
          phone == args[2]
          record == find(b, name, FALSE)
          message == IF record.index = 0 THEN "Contact added." ELSE "Contact updated."
          added == IF record.index = 0 THEN add_record(b, Record(name))
                   ELSE [book |-> b, error |-> NoError]
          b1 == added.book
          i == IndexOfName(b1, name)
      IN  IF added.error # NoError THEN Raised(b, added.error)
          ELSE IF phone # <<>>
          THEN LET a == add_phone(b1[i], phone)
               IN  IF a.error # NoError THEN Raised(b1, a.error)
                   ELSE Returned([b1 EXCEPT ![i] = a.rec], message, <<>>)
          ELSE Returned(b1, message, <<>>)

add_contact(args, b) == input_error(UsageAdd, add_contact_body(args, b))

\* change_contact, undecorated
change_contact_body(args, b) ==
    IF Len(args) < 3 THEN Raised(b, ArityMismatch)
    ELSE
      LET record == find(b, args[1], TRUE)
      IN  IF record.error # NoError THEN Raised(b, record.error)
          ELSE LET e == edit_phone(b[record.index], args[2], args[3])
               IN  IF e.error # NoError THEN Raised(b, e.error)
                   ELSE Returned([b EXCEPT ![record.index] = e.rec],
                                 "Contact updated.", <<>>)

change_contact(args, b) == input_error(UsageChange, change_contact_body(args, b))

\* delete_contact
delete_contact(args, b) ==
    input_error(UsageDelete,
        IF Len(args) < 1 THEN Raised(b, ArityMismatch)
        ELSE Returned(delete(b, args[1]), "Contact deleted.", <<>>))

\* get_contact: the record, which main prints with str()
get_contact(args, b) ==
    input_error(UsageContact,
        IF Len(args) < 1 THEN Raised(b, ArityMismatch)
        ELSE LET record == find(b, args[1], TRUE)
             IN  IF record.error # NoError THEN Raised(b, record.error)
                 ELSE Returned(b, "", <<Record_str(b[record.index])>>))

\* get_all_contacts, which has no decorator
get_all_contacts(args, b) ==
    {Returned(b, "", [i \in 1..Len(b) |-> Record_str(b[i])])}

\* add_birthday, undecorated
add_birthday_body(args, b, now) ==
    IF Len(args) < 2 THEN Raised(b, ArityMismatch)
    ELSE
      LET record == find(b, args[1], TRUE)
      IN  IF record.error # NoError THEN Raised(b, record.error)
          ELSE LET a == Record_add_birthday(b[record.index], args[2], now)
               IN  IF a.error # NoError THEN Raised(b, a.error)
                   ELSE Returned([b EXCEPT ![record.index] = a.rec],
                                 "Birthday added.", <<>>)

add_birthday(args, b, now) ==
    input_error(UsageAddBirthday, add_birthday_body(args, b, now))

\* show_birthday
show_birthday(args, b) ==
    input_error(UsageShowBirthday,
        IF Len(args) < 1 THEN Raised(b, ArityMismatch)
        ELSE LET record == find(b, args[1], TRUE)
             IN  IF record.error # NoError THEN Raised(b, record.error)
                 ELSE IF b[record.index].birthday = NoBirthday
                 THEN Returned(b, "Birthday not set.", <<>>)
                 ELSE Returned(b, "", <<Strftime(b[record.index].birthday)>>))

\* birthdays: the items "name: date", joined with the heading between them
birthdays(args, b, now) ==
    input_error(UsageBirthdays,
        LET bdays == get_upcoming_birthdays(b, now)
        IN  IF bdays.error # NoError THEN Raised(b, bdays.error)
            ELSE Returned(b, "",
                   << JoinStr(<<"U","p","c","o","m","m","i","n","g"," ","b","i","r","t","h","d","a","y","s",":","\n">>,
                        [i \in 1..Len(bdays.entries) |->
                            bdays.entries[i].name \o <<":"," ">>
                              \o bdays.entries[i].congratulation_date]) >>))

---------------------------------------------------------------------------
(* main.py.                                                                *)

UpperLetters ==
    <<"A", "B", "C", "D", "E", "F", "G", "H", "I", "J", "K", "L", "M",
      "N", "O", "P", "Q", "R", "S", "T", "U", "V", "W", "X", "Y", "Z">>

LowerLetters ==
    <<"a", "b", "c", "d", "e", "f", "g", "h", "i", "j", "k", "l", "m",
      "n", "o", "p", "q", "r", "s", "t", "u", "v", "w", "x", "y", "z">>

\* str.lower(), for ASCII
Lower(s) ==
    [i \in 1..Len(s) |->
        IF \E k \in 1..26 : UpperLetters[k] = s[i]
        THEN LowerLetters[CHOOSE k \in 1..26 : UpperLetters[k] = s[i]]
        ELSE s[i]]

Whitespace == {" ", "\t"}

\* str.split(): the maximal runs of characters that are not whitespace
RECURSIVE SplitFrom(_, _, _)
SplitFrom(s, word, words) ==
    IF s = <<>> THEN (IF word = <<>> THEN words ELSE Append(words, word))
    ELSE IF Head(s) \in Whitespace
    THEN SplitFrom(Tail(s), <<>>, IF word = <<>> THEN words ELSE Append(words, word))
    ELSE SplitFrom(Tail(s), Append(word, Head(s)), words)

Split(s) == SplitFrom(s, <<>>, <<>>)

\* cmd, *args = user_input.split()  with nothing to unpack
NothingToUnpack ==
    [type |-> "ValueError",
     message |-> "not enough values to unpack (expected at least 1, got 0)"]

\* parse_input: the command, lower-cased, and the arguments; or the ValueError
\* of the unpacking
parse_input(user_input) ==
    LET words == Split(user_input)
    IN  IF words = <<>>
        THEN [error |-> NothingToUnpack, cmd |-> <<>>, args |-> <<>>]
        ELSE [error |-> NoError, cmd |-> Lower(words[1]), args |-> Tail(words)]

UsageMain ==
    "Invalid command. Usage: hello | all | add [name] [phone] | change [name] [phone] | contact [name] | delete [name] | add-birthday [name] [date] | show-birthday [name] | birthdays | exit | close"

\* one turn of the loop of main() on the line read, as the set of its
\* outcomes: what is printed, the book after it, and whether the loop goes on
\* ("running"), was left by break ("exited") or by an exception nothing
\* catches ("crashed")
main_loop(user_input, b, now) ==
    LET p == parse_input(user_input)
        command == p.cmd
        args == p.args
        go(rs) == {[pc |-> "running", book |-> r.book, error |-> r.error,
                    ret |-> r.ret, value |-> r.value] : r \in rs}
    IN  IF p.error # NoError
        THEN {[pc |-> "crashed", book |-> b, error |-> p.error, ret |-> "",
               value |-> <<>>]}
        ELSE IF command \in {<<"c","l","o","s","e">>, <<"e","x","i","t">>}
        THEN {[pc |-> "exited", book |-> b, error |-> NoError, ret |-> "Good bye!",
               value |-> <<>>]}
        ELSE IF command = <<"h","e","l","l","o">> THEN go({Returned(b, "How can I help you?", <<>>)})
        ELSE IF command = <<"a","l","l">> THEN go(get_all_contacts(args, b))
        ELSE IF command = <<"a","d","d">> THEN go(add_contact(args, b))
        ELSE IF command = <<"c","h","a","n","g","e">> THEN go(change_contact(args, b))
        ELSE IF command = <<"c","o","n","t","a","c","t">> THEN go(get_contact(args, b))
        ELSE IF command = <<"d","e","l","e","t","e">> THEN go(delete_contact(args, b))
        ELSE IF command = <<"a","d","d","-","b","i","r","t","h","d","a","y">> THEN go(add_birthday(args, b, now))
        ELSE IF command = <<"s","h","o","w","-","b","i","r","t","h","d","a","y">> THEN go(show_birthday(args, b))
        ELSE IF command = <<"b","i","r","t","h","d","a","y","s">> THEN go(birthdays(args, b, now))
        ELSE go({Returned(b, UsageMain, <<>>)})

---------------------------------------------------------------------------
(* The specification of Phone construction: a raw string is drawn, then    *)
(* Phone(raw) is called.                                                   *)

PreAlphabet == {"+", "3", "8", "-"}
SufAlphabet == {"+", "8", " "}
FillDigits == {"0", "1"}

\* the names and the raw phone strings the calls are made with
Dmytro == <<"D","m","y","t","r","o">>
John == <<"J","o","h","n">>

P1a == <<"0","9","6","-","1","2","3","-","4","6","-","5","7">>
P1b == <<"+","3","8","0","9","6","1","2","3","4","6","5","7">>
P2 == <<"1","2","3","-","4","5","6","-","7","8","-","9","0">>
P3 == <<"3","8","0","5","0","1","1","1","2","2","3","3">>
P4 == <<"(","0","5","0",")"," ","1","1","1"," ","2","2"," ","4","4">>
BadPhone == <<"1","2","3">>
EmptyStr == <<>>

\* no call made yet
NoCall ==
    [op |-> "", args |-> <<>>, error |-> NoError, ret |-> "", value |-> <<>>,
     entries |-> <<>>]

\* a call of a method that returns nothing
Call(op, args, error) ==
    [op |-> op, args |-> args, error |-> error, ret |-> "", value |-> <<>>,
     entries |-> <<>>]

Pending == [error |-> [type |-> "pending", message |-> ""], value |-> <<>>]

InitRest ==
    /\ book = <<>>
    /\ last = NoCall
    /\ rec = Record(Dmytro)
    /\ pc = "idle"

\* the date the clock shows where the date plays no part
SomeDay == Date(2024, 1, 1)

\* the raw string: a prefix, a run of one digit and a suffix
InitPhone ==
    /\ \E pre \in Strs(PreAlphabet, MaxPre), d \in FillDigits,
          n \in 0..MaxFill, suf \in Strs(SufAlphabet, MaxSuf) :
            raw = pre \o Rep(d, n) \o suf
    /\ built = Pending
    /\ today = SomeDay
    /\ InitRest

ConstructPhone ==
    /\ built = Pending
    /\ built' = Phone(raw)
    /\ UNCHANGED <<book, today, last, rec, raw, pc>>

NextPhone == ConstructPhone

SpecPhone == InitPhone /\ [][NextPhone]_vars

---------------------------------------------------------------------------
(* Claims about Phone.                                                     *)

\* a raw string with every character other than the digits and '+' removed
Reduced(value) == SelectSeq(value, LAMBDA c : c \in DigitSet \cup {"+"})

\* the 10 digits of a reduced string that is 10 digits, 38 and 10 digits, or
\* +38 and 10 digits; <<>> for any other string
TenDigits(c) ==
    IF Len(c) = 10 /\ AllDigits(c) THEN c
    ELSE IF Len(c) = 12 /\ AllDigits(c) /\ SubSeq(c, 1, 2) = <<"3","8">> THEN SubSeq(c, 3, 12)
    ELSE IF Len(c) = 13 /\ SubSeq(c, 1, 3) = <<"+","3","8">> /\ AllDigits(SubSeq(c, 4, 13))
    THEN SubSeq(c, 4, 13)
    ELSE <<>>

\* '+', the country code 38, then 10 digits
WellFormed(v) ==
    /\ Len(v) = 13
    /\ SubSeq(v, 1, 3) = <<"+","3","8">>
    /\ AllDigits(SubSeq(v, 4, 13))

\* C5: a raw string that reduces to 10 digits, to 38 and 10 digits or to +38
\* and 10 digits is accepted, and the value is 13 characters, starts with +38
\* and ends with those 10 digits.
C5_TenDigitsAccepted ==
    (built # Pending /\ TenDigits(Reduced(raw)) # <<>>)
        => /\ built.error = NoError
           /\ Len(built.value) = 13
           /\ SubSeq(built.value, 1, 3) = <<"+","3","8">>
           /\ SubSeq(built.value, 4, 13) = TenDigits(Reduced(raw))

\* C6: every accepted value is '+', 38 and 10 digits, with no other '+'; every
\* raw string that does not reduce to that form is rejected with the
\* ValueError of Phone.
C6_AcceptedWellFormed ==
    built # Pending
        => /\ built.error = NoError => WellFormed(built.value)
           /\ TenDigits(Reduced(raw)) = <<>> => built.error = InvalidFormat

---------------------------------------------------------------------------
(* The specification of one Record driven through add_phone, remove_phone  *)
(* and edit_phone.                                                         *)

\* the longest phone list a call may leave
MaxPhones == 3

RecordPhones == {P1a, P1b, P2, P3, P4, BadPhone, EmptyStr}

InitRecord ==
    /\ raw = EmptyStr
    /\ today = SomeDay
    /\ built = Pending
    /\ InitRest

AddPhone(p) ==
    \E r \in {add_phone(rec, p)} :
        /\ Len(r.rec.phones) <= MaxPhones
        /\ rec' = r.rec
        /\ last' = Call("add_phone", <<p>>, r.error)
        /\ UNCHANGED <<book, today, raw, built, pc>>

RemovePhone(p) ==
    \E r \in {remove_phone(rec, p)} :
        /\ rec' = r.rec
        /\ last' = Call("remove_phone", <<p>>, r.error)
        /\ UNCHANGED <<book, today, raw, built, pc>>

EditPhone(p, q) ==
    \E r \in {edit_phone(rec, p, q)} :
        /\ Len(r.rec.phones) <= MaxPhones
        /\ rec' = r.rec
        /\ last' = Call("edit_phone", <<p, q>>, r.error)
        /\ UNCHANGED <<book, today, raw, built, pc>>

NextRecord ==
    \/ \E p \in RecordPhones : AddPhone(p)
    \/ \E p \in RecordPhones : RemovePhone(p)
    \/ \E p, q \in RecordPhones : EditPhone(p, q)

SpecRecord == InitRecord /\ [][NextRecord]_vars

---------------------------------------------------------------------------
(* Claims about Record.                                                    *)

Range(s) == {s[i] : i \in 1..Len(s)}

NoDuplicates(s) == \A i, j \in 1..Len(s) : i # j => s[i] # s[j]

\* C1: after any add_phone, remove_phone or edit_phone call, failed or not, no
\* two entries of the record's phone list are equal; and add_phone with a
\* string whose normalized form is already in the list raises "Phone number
\* already exists." and leaves the record as it was.
C1_PhonesUnique ==
    [][ /\ NoDuplicates(rec'.phones)
        /\ (/\ last'.op = "add_phone"
            /\ Phone(last'.args[1]).error = NoError
            /\ Phone(last'.args[1]).value \in Range(rec.phones))
           => (last'.error = DuplicatePhone /\ rec' = rec) ]_vars

\* C1: a second form of a number already in a list of two was refused
C1_Witness ==
    /\ last.op = "add_phone"
    /\ last.error = DuplicatePhone
    /\ last.args[1] = P1b
    /\ Len(rec.phones) = 2
    /\ Phone(P1a).value \in Range(rec.phones)

\* C4 (as amended): edit_phone(old, new) with both arguments valid phones
\* raises "No such phone number." when old's normalized form is not in the
\* list; when it is, raises "New phone number already exists." exactly when
\* new's normalized form equals any entry of the list, the one being edited
\* included; in every other case it succeeds, the entry at old's position
\* becomes new's normalized form, and the length and all other entries stay.
C4_EditPhone ==
    [][ (/\ last'.op = "edit_phone"
         /\ Phone(last'.args[1]).error = NoError
         /\ Phone(last'.args[2]).error = NoError)
        => LET old == Phone(last'.args[1]).value
               new == Phone(last'.args[2]).value
               i == FirstIndex(rec.phones, old)
           IN  IF i = 0
               THEN last'.error = PhoneNotFound /\ rec' = rec
               ELSE IF new \in Range(rec.phones)
               THEN last'.error = DuplicateNewPhone /\ rec' = rec
               ELSE /\ last'.error = NoError
                    /\ Len(rec'.phones) = Len(rec.phones)
                    /\ \A j \in 1..Len(rec.phones) :
                          rec'.phones[j] = IF j = i THEN new ELSE rec.phones[j]
                    /\ rec'.name = rec.name
                    /\ rec'.birthday = rec.birthday ]_vars

\* C4: the middle entry of a list of three was edited in place
C4_Witness ==
    /\ last.op = "edit_phone"
    /\ last.error = NoError
    /\ Len(rec.phones) = 3
    /\ rec.phones[2] = Phone(last.args[2]).value
    /\ Phone(last.args[1]).value \notin Range(rec.phones)

\* C4 as first stated: the duplicate error exactly when new's normalized form
\* equals an entry other than the one being edited, and success otherwise
C4_Original ==
    [][ (/\ last'.op = "edit_phone"
         /\ Phone(last'.args[1]).error = NoError
         /\ Phone(last'.args[2]).error = NoError)
        => LET old == Phone(last'.args[1]).value
               new == Phone(last'.args[2]).value
               i == FirstIndex(rec.phones, old)
           IN  IF i = 0
               THEN last'.error = PhoneNotFound
               ELSE IF \E j \in 1..Len(rec.phones) : j # i /\ rec.phones[j] = new
               THEN last'.error = DuplicateNewPhone
               ELSE /\ last'.error = NoError
                    /\ Len(rec'.phones) = Len(rec.phones)
                    /\ \A j \in 1..Len(rec.phones) :
                          rec'.phones[j] = IF j = i THEN new ELSE rec.phones[j] ]_vars

---------------------------------------------------------------------------
(* The specification of the address book driven through the handlers, and  *)
(* through add_record with a record built outside the book.                *)

Names == {Dmytro, John}

BookPhones == {P1a, P1b, P2, BadPhone, EmptyStr}

BirthdayArgs == {<<"0","1",".","0","4",".","1","9","9","0">>, <<"3","1",".","0","2",".","2","0","0","0">>, <<"0","1",".","0","1",".","2","9","9","9">>, <<"0","1",".","0","1",".","1","8","9","9">>}

AddArgs ==
    {<<>>, <<Dmytro, P2, P1a>>}
        \cup {<<n>> : n \in Names} \cup {<<n, p>> : n \in Names, p \in BookPhones}

ChangeArgs ==
    {<<>>} \cup {<<n, P1a>> : n \in Names}
           \cup {<<n, p, q>> : n \in Names, p \in {P1a, P2, BadPhone},
                               q \in {P1b, P2, BadPhone}}

DeleteArgs == {<<>>} \cup {<<n>> : n \in Names}

AddBirthdayArgs ==
    {<<>>} \cup {<<n>> : n \in Names} \cup {<<n, d>> : n \in Names, d \in BirthdayArgs}

\* the records handed to add_record: Record(name), with no phone or with one
NewRecords == {Record(n) : n \in Names} \cup {add_phone(Record(n), P2).rec : n \in Names}

Init ==
    /\ raw = EmptyStr
    /\ built = Pending
    /\ today = SomeDay
    /\ InitRest

\* a call of a handler
Handled(op, args, r) ==
    [op |-> op, args |-> args, error |-> r.error, ret |-> r.ret, value |-> r.value,
     entries |-> <<>>]

PhonesBounded(b) == \A i \in 1..Len(b) : Len(b[i].phones) <= MaxPhones

AddContact(args) ==
    \E r \in add_contact(args, book) :
        /\ PhonesBounded(r.book)
        /\ book' = r.book
        /\ last' = Handled("add", args, r)
        /\ UNCHANGED <<today, rec, raw, built, pc>>

ChangeContact(args) ==
    \E r \in change_contact(args, book) :
        /\ book' = r.book
        /\ last' = Handled("change", args, r)
        /\ UNCHANGED <<today, rec, raw, built, pc>>

DeleteContact(args) ==
    \E r \in delete_contact(args, book) :
        /\ book' = r.book
        /\ last' = Handled("delete", args, r)
        /\ UNCHANGED <<today, rec, raw, built, pc>>

AddBirthday(args) ==
    \E r \in add_birthday(args, book, today) :
        /\ book' = r.book
        /\ last' = Handled("add-birthday", args, r)
        /\ UNCHANGED <<today, rec, raw, built, pc>>

AddRecord(record) ==
    \E r \in {add_record(book, record)} :
        /\ book' = r.book
        /\ last' = Call("add_record", <<record.name>>, r.error)
        /\ UNCHANGED <<today, rec, raw, built, pc>>

Next ==
    \/ \E args \in AddArgs : AddContact(args)
    \/ \E args \in ChangeArgs : ChangeContact(args)
    \/ \E args \in DeleteArgs : DeleteContact(args)
    \/ \E args \in AddBirthdayArgs : AddBirthday(args)
    \/ \E record \in NewRecords : AddRecord(record)

Spec == Init /\ [][Next]_vars

---------------------------------------------------------------------------
(* Claims about the address book and the handlers.                         *)

SuccessMessages == {"Contact added.", "Contact updated.", "Birthday added."}

\* what C2 says of a successful add(name, phone): the contact is in the book
\* and, a phone having been given, its normalized form is the last entry of the
\* contact's list, after the entries the list had before
AddedLast(b, b2, name, phone) ==
    LET i == IndexOfName(b, name)
        k == IndexOfName(b2, name)
        before == IF i = 0 THEN <<>> ELSE b[i].phones
    IN  /\ k # 0
        /\ phone # <<>> => b2[k].phones = Append(before, Phone(phone).value)

\* C2 (as amended): add called with (name, phone), phone a valid phone,
\* returns "Contact added." exactly when no contact with that name was in the
\* book before the call; when one was, it returns "Contact updated." exactly
\* when that contact's list did not hold the normalized phone, and otherwise
\* fails with "Phone number already exists." and leaves the book as it was; on
\* success the contact is in the book, the normalized phone is the last entry
\* of its list and the earlier entries keep their values and order.
C2_AddContact ==
    [][ (/\ last'.op = "add"
         /\ Len(last'.args) >= 2
         /\ Phone(last'.args[2]).error = NoError)
        => LET i == IndexOfName(book, last'.args[1])
               held == i # 0 /\ Phone(last'.args[2]).value \in Range(book[i].phones)
           IN  /\ last'.ret = "Contact added." <=> i = 0
               /\ last'.ret = "Contact updated." <=> (i # 0 /\ ~held)
               /\ held => (last'.error = DuplicatePhone /\ book' = book)
               /\ last'.ret \in {"Contact added.", "Contact updated."}
                    => AddedLast(book, book', last'.args[1], last'.args[2]) ]_vars

\* C2: a second phone was added to a contact that had one
C2_Witness ==
    /\ last.op = "add"
    /\ last.ret = "Contact updated."
    /\ \E i \in 1..Len(book) :
          /\ book[i].name = last.args[1]
          /\ Len(book[i].phones) = 2
          /\ book[i].phones[2] = Phone(last.args[2]).value

\* C2 as first stated: for every call with (name, phone), phone a valid phone,
\* the message is "Contact added." exactly when the name was not in the book
\* and "Contact updated." exactly when it was
C2_Original ==
    [][ (/\ last'.op = "add"
         /\ Len(last'.args) >= 2
         /\ Phone(last'.args[2]).error = NoError)
        => /\ last'.ret = "Contact added." <=> IndexOfName(book, last'.args[1]) = 0
           /\ last'.ret = "Contact updated." <=> IndexOfName(book, last'.args[1]) # 0
           /\ last'.ret \in {"Contact added.", "Contact updated."}
                => AddedLast(book, book', last'.args[1], last'.args[2]) ]_vars

\* C3: add_record with a record whose name is already a key of the book raises
\* "Contact already exists.", and the book has the same keys, each with the
\* same record, as before.
C3_AddRecordDuplicate ==
    [][ (last'.op = "add_record" /\ IndexOfName(book, last'.args[1]) # 0)
        => (last'.error = DuplicateContact /\ book' = book) ]_vars

\* C3: add_record was refused for a name whose record in the book differs from
\* every record add_record is called with
C3_Witness ==
    /\ last.op = "add_record"
    /\ last.error = DuplicateContact
    /\ \E i \in 1..Len(book) :
          book[i].name = last.args[1] /\ book[i] \notin NewRecords

\* C10: add, change and add-birthday, called with any arguments, leave the book
\* as it was whenever they do not return their success message.
C10_FailedCommandKeepsBook ==
    [][ (/\ last'.op \in {"add", "change", "add-birthday"}
         /\ last'.ret \notin SuccessMessages)
        => book' = book ]_vars

---------------------------------------------------------------------------
(* The specification of the upcoming birthdays: the clock shows any of the *)
(* reference dates, contacts are added and given birthdays, and the        *)
(* upcoming birthdays are asked for.                                       *)

\* the reference years are 2023 (not a leap year) .. 2023 + MaxYearOffset
MaxYearOffset == 1

RefYears == 2023..(2023 + MaxYearOffset)

\* the last days of December, New Year's Day, the end of February, 1 March
RefMonthDays ==
    {<<12, d>> : d \in 27..31} \cup {<<2, d>> : d \in 26..29} \cup {<<1, 1>>, <<3, 1>>}

RefDates ==
    {d \in {Date(y, md[1], md[2]) : y \in RefYears, md \in RefMonthDays} :
        DateValid(d.year, d.month, d.day)}

UpcomingBirthdayArgs ==
    {<<"0","1",".","0","1",".","1","9","9","0">>, <<"3","0",".","1","2",".","1","9","9","0">>, <<"3","1",".","1","2",".","1","9","9","0">>, <<"2","9",".","0","2",".","2","0","0","0">>, <<"0","2",".","0","3",".","1","9","9","0">>,
     <<"3","1",".","0","2",".","2","0","0","0">>}

InitBirthdays ==
    /\ raw = EmptyStr
    /\ built = Pending
    /\ today \in RefDates
    /\ InitRest

GetUpcomingBirthdays ==
    \E r \in {get_upcoming_birthdays(book, today)} :
        /\ last' = [Call("get_upcoming_birthdays", <<>>, r.error) EXCEPT
                       !.entries = r.entries]
        /\ UNCHANGED <<book, today, rec, raw, built, pc>>

Birthdays ==
    \E r \in birthdays(<<>>, book, today) :
        /\ last' = Handled("birthdays", <<>>, r)
        /\ UNCHANGED <<book, today, rec, raw, built, pc>>

NextBirthdays ==
    \/ \E n \in Names : AddContact(<<n, P1a>>)
    \/ \E n \in Names, d \in UpcomingBirthdayArgs : AddBirthday(<<n, d>>)
    \/ GetUpcomingBirthdays
    \/ Birthdays

SpecBirthdays == InitBirthdays /\ [][NextBirthdays]_vars

---------------------------------------------------------------------------
(* Claims about the upcoming birthdays.                                    *)

\* whether the birthday's next occurrence on or after ref is one of the 7 days
\* ref .. ref + 6
OccursWithinWeek(ref, birthday) ==
    \E k \in 0..6 :
        LET d == AddDays(ref, k)
        IN  d.month = birthday.month /\ d.day = birthday.day

\* the names, in the order of the book, of the contacts whose birthday occurs
\* within the week
ExpectedNames(b, ref) ==
    LET due == SelectSeq(b, LAMBDA r :
                   r.birthday # NoBirthday /\ OccursWithinWeek(ref, r.birthday))
    IN  [i \in 1..Len(due) |-> due[i].name]

\* C7: for every book and every reference date, get_upcoming_birthdays returns,
\* in the order of the book, exactly one entry for each contact whose birthday
\* next occurs within the 7 days that start at the reference date, and none
\* for any other contact.
C7_UpcomingWithinWeek ==
    last.op = "get_upcoming_birthdays"
        => /\ last.error = NoError
           /\ [i \in 1..Len(last.entries) |-> last.entries[i].name]
                = ExpectedNames(book, today)

\* C8: the congratulation date of every entry returned is not a Saturday or a
\* Sunday: it is the birthday in the reference year when that is Monday to
\* Friday, the Monday 2 days later when it is a Saturday, and the Monday 1 day
\* later when it is a Sunday.
C8_CongratulationOnWeekday ==
    last.op = "get_upcoming_birthdays"
        => \A i \in 1..Len(last.entries) :
              LET r == book[IndexOfName(book, last.entries[i].name)]
                  projected == Date(today.year, r.birthday.month, r.birthday.day)
                  shown == Strptime(last.entries[i].congratulation_date)
              IN  /\ shown.error = NoError
                  /\ Weekday(shown.value) \notin {5, 6}
                  /\ Weekday(projected) \in 0..4 => shown.value = projected
                  /\ Weekday(projected) = 5
                       => (shown.value = AddDays(projected, 2) /\ Weekday(shown.value) = 0)
                  /\ Weekday(projected) = 6
                       => (shown.value = AddDays(projected, 1) /\ Weekday(shown.value) = 0)

\* C8: two entries were returned, one for a birthday on a Saturday and one for
\* a birthday on a Sunday
C8_Witness ==
    /\ last.op = "get_upcoming_birthdays"
    /\ Len(last.entries) = 2
    /\ \E i, j \in 1..2 :
          /\ Weekday(Date(today.year, book[i].birthday.month, book[i].birthday.day)) = 5
          /\ Weekday(Date(today.year, book[j].birthday.month, book[j].birthday.day)) = 6

---------------------------------------------------------------------------
(* The specification of the command loop: main() reads lines until it      *)
(* leaves the loop.                                                        *)

\* the lines typed: commands with enough and with too few arguments, in
\* capitals, with extra whitespace, an unknown command, and lines of nothing
\* or of whitespace only
Lines ==
    {<<"h","e","l","l","o">>, <<"a","l","l">>, <<"b","i","r","t","h","d","a","y","s">>, <<"e","x","i","t">>, <<"C","l","o","s","e">>, <<"b","o","g","u","s">>,
     <<"a","d","d">>, <<"a","d","d"," ","D","m","y","t","r","o">>, <<"a","d","d"," ","D","m","y","t","r","o"," ","0","9","6","-","1","2","3","-","4","6","-","5","7">>, <<"A","D","D"," ","J","o","h","n"," ","1","2","3","-","4","5","6","-","7","8","-","9","0">>,
     <<"a","d","d"," ","D","m","y","t","r","o"," ","1","2","3">>, <<" "," ","a","d","d","\t","D","m","y","t","r","o"," "," "," ","1","2","3","-","4","5","6","-","7","8","-","9","0"," "," ">>,
     <<"c","h","a","n","g","e"," ","D","m","y","t","r","o"," ","0","9","6","-","1","2","3","-","4","6","-","5","7"," ","1","2","3","-","4","5","6","-","7","8","-","9","0">>, <<"c","h","a","n","g","e"," ","D","m","y","t","r","o"," ","0","9","6","-","1","2","3","-","4","6","-","5","7">>,
     <<"c","h","a","n","g","e"," ","J","o","h","n"," ","1","2","3"," ","1","2","3">>,
     <<"c","o","n","t","a","c","t"," ","D","m","y","t","r","o">>, <<"c","o","n","t","a","c","t">>,
     <<"d","e","l","e","t","e"," ","D","m","y","t","r","o">>, <<"d","e","l","e","t","e">>,
     <<"a","d","d","-","b","i","r","t","h","d","a","y"," ","D","m","y","t","r","o"," ","0","1",".","0","4",".","1","9","9","0">>, <<"a","d","d","-","b","i","r","t","h","d","a","y"," ","J","o","h","n"," ","2","9",".","0","2",".","2","0","0","0">>,
     <<"a","d","d","-","b","i","r","t","h","d","a","y"," ","D","m","y","t","r","o"," ","1","9","9","0","-","0","4","-","0","1">>, <<"a","d","d","-","b","i","r","t","h","d","a","y"," ","D","m","y","t","r","o">>,
     <<"s","h","o","w","-","b","i","r","t","h","d","a","y"," ","D","m","y","t","r","o">>, <<"s","h","o","w","-","b","i","r","t","h","d","a","y">>,
     <<>>, <<" ">>, <<"\t"," ">>}

InitRepl ==
    /\ raw = EmptyStr
    /\ built = Pending
    /\ today = SomeDay
    /\ book = <<>>
    /\ last = NoCall
    /\ rec = Record(Dmytro)
    /\ pc = "running"

MainLoop(user_input) ==
    /\ pc = "running"
    /\ \E r \in main_loop(user_input, book, today) :
          /\ PhonesBounded(r.book)
          /\ pc' = r.pc
          /\ book' = r.book
          /\ last' = Handled("main", <<user_input>>, r)
    /\ UNCHANGED <<today, rec, raw, built>>

NextRepl == \E user_input \in Lines : MainLoop(user_input)

SpecRepl == InitRepl /\ [][NextRepl]_vars

---------------------------------------------------------------------------
(* Claims about the command loop.                                          *)

\* C9: no line is fatal: on every line the loop prints and goes on to the next
\* line or, for exit and close, is left by break; it ends in no other way.
C9_NoLineIsFatal ==
    /\ pc \in {"running", "exited"}
    /\ pc = "exited" => parse_input(last.args[1]).cmd \in {<<"e","x","i","t">>, <<"c","l","o","s","e">>}

=============================================================================

